---------------------------- MODULE Spec2Model ----------------------------
(***************************************************************************)
(* Model of ec2_ami_copy.py: main() fetches a source image, copies the     *)
(* snapshot of its root device (copy_snapshot), builds a block device map  *)
(* (build_block_device_map) and registers a new image (create_image).      *)
(* The EC2 provider is the environment: every provider call either raises  *)
(* EC2ResponseError or returns, and every status fetch returns whatever    *)
(* status the provider reports at that moment.                             *)
(***************************************************************************)
EXTENDS Integers, Sequences, FiniteSets, TLC

(***************************************************************************)
(* Bounds of the model.                                                    *)
(***************************************************************************)
\* sleeps allowed in one polling loop before the model stops following it
MaxWaits == 2

(***************************************************************************)
(* Program constants.                                                      *)
(***************************************************************************)
SleepInterval == 5
RootSize == 10
RootVolumeType == "gp2"
NumEphemeral == 4
FirstEphemeralChr == 98
Simple == "simple"
None == "None"

(***************************************************************************)
(* Values the environment supplies.                                        *)
(***************************************************************************)
SnapshotStatuses == {"pending", "completed", "error"}
ImageStates == {"pending", "available", "failed"}
SourceDeviceNames == {"/dev/sda1", "/dev/sdb"}
SourceSnapshotIds == {"snap-0001", "snap-0003"}
SourceSizes == {8, 30}
SourceVolumeTypes == {"standard"}
SourceSriov == {None, Simple}
NewSnapshotIds == {"snap-0002"}
NewImageIds == {"ami-0002"}
ErrorMessage == "provider message"

\* a device of the source image's mapping, as boto's BlockDeviceType
SourceDevices ==
    [snapshot_id : SourceSnapshotIds, size : SourceSizes,
     volume_type : SourceVolumeTypes, delete_on_termination : BOOLEAN]

\* the block device mappings a source image may carry
SourceMappings ==
    UNION {[names -> SourceDevices] : names \in SUBSET SourceDeviceNames}

\* the image descriptors get_all_images may return for the source AMI
SourceImages ==
    [id : {"ami-0001"}, name : {"source-ami"}, architecture : {"x86_64"},
     kernel_id : {"aki-1"}, ramdisk_id : {"ari-1"},
     virtualization_type : {"paravirtual"},
     root_device_name : SourceDeviceNames,
     sriov_net_support : SourceSriov,
     block_device_mapping : SourceMappings]

\* the parsed command line
Arguments ==
    [ami_id : {"ami-0001"}, region : {"us-east-1"}, sriov_net_support : BOOLEAN]

VARIABLES
    args,                 \* parsed command line (main, l.128)
    source_image,         \* the descriptor get_all_images returns (l.139)
    pc,                   \* the statement the process is at
    source_snapshot_id,   \* main's local (l.146)
    cs_target_snapshot_id,\* copy_snapshot's local (l.36)
    target_snapshot_id,   \* main's local (l.147)
    sriov_net_support,    \* main's local (l.150-153)
    block_device_map,     \* main's local (l.155)
    ci_target_image_id,   \* create_image's local (l.84)
    target_image_id,      \* main's local (l.157)
    calls,                \* provider calls issued so far, with their outcome
    register_request,     \* keyword arguments of the register_image call
    log,                  \* records emitted through logging
    clock,                \* time spent in sleep()
    exit_status,          \* -1 while running, else the process's exit status
    uncaught              \* exception that left main() uncaught, or None

vars == <<args, source_image, pc, source_snapshot_id, cs_target_snapshot_id,
          target_snapshot_id, sriov_net_support, block_device_map,
          ci_target_image_id, target_image_id, calls, register_request, log,
          clock, exit_status, uncaught>>

locals == <<source_snapshot_id, cs_target_snapshot_id, target_snapshot_id,
            sriov_net_support, block_device_map, ci_target_image_id,
            target_image_id>>

inputs == <<args, source_image>>

(***************************************************************************)
(* Helpers shared by the statements.                                       *)
(***************************************************************************)
EmptyMap == [d \in {} |-> None]

\* one provider call: the operation, its id argument, the outcome and the
\* source line that issued it
Call(op, arg, res, line) == [op |-> op, arg |-> arg, res |-> res, line |-> line]

Record(level, msg, arg) == [level |-> level, msg |-> msg, arg |-> arg]

\* logging.critical(...) followed by sys.exit(1)
Fatal(msg, arg) ==
    /\ log' = Append(log, Record("CRITICAL", msg, arg))
    /\ exit_status' = 1
    /\ pc' = "exit"
    /\ UNCHANGED uncaught

\* an exception nobody catches: the interpreter prints a traceback and exits 1
Raise(exc) ==
    /\ uncaught' = exc
    /\ exit_status' = 1
    /\ pc' = "exit"
    /\ UNCHANGED log

Goto(label) ==
    /\ pc' = label
    /\ UNCHANGED <<exit_status, uncaught>>

Init ==
    /\ args \in Arguments
    /\ source_image \in SourceImages
    /\ pc = "get_source_image"
    /\ source_snapshot_id = None
    /\ cs_target_snapshot_id = None
    /\ target_snapshot_id = None
    /\ sriov_net_support = None
    /\ block_device_map = EmptyMap
    /\ ci_target_image_id = None
    /\ target_image_id = None
    /\ calls = <<>>
    /\ register_request = {}
    /\ log = <<>>
    /\ clock = 0
    /\ exit_status = -1
    /\ uncaught = None

(***************************************************************************)
(* main, l.137-147                                                         *)
(***************************************************************************)
\* l.138-142: source_image = connection.get_all_images(image_ids=args.ami_id)[0]
GetSourceImage ==
    /\ pc = "get_source_image"
    /\ \E ok \in BOOLEAN :
        IF ok
        THEN /\ calls' = Append(calls, Call("get_all_images", args.ami_id, "ok", 139))
             /\ Goto("root_lookup")
             /\ UNCHANGED log
        ELSE /\ calls' = Append(calls, Call("get_all_images", args.ami_id,
                                            "EC2ResponseError", 139))
             /\ Fatal("Getting the source AMI failed: %s", ErrorMessage)
    /\ UNCHANGED <<inputs, locals, register_request, clock>>

\* RootLookup reading the mapping with a default (dict.get) instead of indexing
\* it: a missing root entry goes unnoticed until build_block_device_map
RootLookupWithDefault ==
    /\ pc = "root_lookup"
    /\ LET root_device_name == source_image.root_device_name
       IN  source_snapshot_id' =
              IF root_device_name \in DOMAIN source_image.block_device_mapping
              THEN source_image.block_device_mapping[root_device_name].snapshot_id
              ELSE None
    /\ Goto("cs_get_snapshot")
    /\ UNCHANGED <<inputs, cs_target_snapshot_id, target_snapshot_id,
                   sriov_net_support, block_device_map, ci_target_image_id,
                   target_image_id, calls, register_request, log, clock>>

\* l.145-146: the root entry of the source mapping; a missing key is a KeyError
RootLookup ==
    /\ pc = "root_lookup"
    /\ LET root_device_name == source_image.root_device_name
       IN  IF root_device_name \in DOMAIN source_image.block_device_mapping
           THEN /\ source_snapshot_id' =
                       source_image.block_device_mapping[root_device_name].snapshot_id
                /\ Goto("cs_get_snapshot")
                /\ UNCHANGED log
           ELSE /\ Raise("KeyError")
                /\ UNCHANGED source_snapshot_id
    /\ UNCHANGED <<inputs, cs_target_snapshot_id, target_snapshot_id,
                   sriov_net_support, block_device_map, ci_target_image_id,
                   target_image_id, calls, register_request, clock>>

(***************************************************************************)
(* copy_snapshot, l.27-53                                                  *)
(***************************************************************************)
\* GetSourceSnapshot without the sys.exit(1) of l.33: the run goes on to copy
GetSourceSnapshotNoExit ==
    /\ pc = "cs_get_snapshot"
    /\ \E ok \in BOOLEAN :
        /\ calls' = Append(calls, Call("get_all_snapshots", source_snapshot_id,
                                       IF ok THEN "ok" ELSE "EC2ResponseError", 30))
        /\ log' = IF ok THEN log
                  ELSE Append(log, Record("CRITICAL",
                                  "Getting the snapshot of the source AMI failed: %s",
                                  ErrorMessage))
        /\ Goto("cs_copy")
    /\ UNCHANGED <<inputs, locals, register_request, clock>>

\* l.29-33: source_snapshot = connection.get_all_snapshots(snapshot_ids=snapshot_id)[0]
GetSourceSnapshot ==
    /\ pc = "cs_get_snapshot"
    /\ \E ok \in BOOLEAN :
        IF ok
        THEN /\ calls' = Append(calls, Call("get_all_snapshots", source_snapshot_id,
                                            "ok", 30))
             /\ Goto("cs_copy")
             /\ UNCHANGED log
        ELSE /\ calls' = Append(calls, Call("get_all_snapshots", source_snapshot_id,
                                            "EC2ResponseError", 30))
             /\ Fatal("Getting the snapshot of the source AMI failed: %s", ErrorMessage)
    /\ UNCHANGED <<inputs, locals, register_request, clock>>

\* CopyRequest with the provider's rejection swallowed: the run goes on
CopyRequestIgnoresError ==
    /\ pc = "cs_copy"
    /\ \E res \in NewSnapshotIds \cup {"EC2ResponseError"} :
        /\ calls' = Append(calls, Call("copy_snapshot", source_snapshot_id, res, 36))
        /\ cs_target_snapshot_id' = IF res \in NewSnapshotIds THEN res ELSE None
        /\ Goto("cs_poll")
        /\ UNCHANGED log
    /\ UNCHANGED <<inputs, source_snapshot_id, target_snapshot_id,
                   sriov_net_support, block_device_map, ci_target_image_id,
                   target_image_id, register_request, clock>>

\* l.35-41: target_snapshot_id = connection.copy_snapshot(...)
CopyRequest ==
    /\ pc = "cs_copy"
    /\ \/ \E new_id \in NewSnapshotIds :
            /\ calls' = Append(calls, Call("copy_snapshot", source_snapshot_id,
                                           new_id, 36))
            /\ cs_target_snapshot_id' = new_id
            /\ Goto("cs_poll")
            /\ UNCHANGED log
       \/ /\ calls' = Append(calls, Call("copy_snapshot", source_snapshot_id,
                                         "EC2ResponseError", 36))
          /\ Fatal("Copying the snapshot of the source AMI failed: %s", ErrorMessage)
          /\ UNCHANGED cs_target_snapshot_id
    /\ UNCHANGED <<inputs, source_snapshot_id, target_snapshot_id,
                   sriov_net_support, block_device_map, ci_target_image_id,
                   target_image_id, register_request, clock>>

\* the loop of l.44 never entered
SnapshotPendingNever(status) == FALSE

\* l.44: the loop condition on the fetched status
SnapshotPending(status) == status = "pending"

\* l.44: while connection.get_all_snapshots(...)[0].status == 'pending'
\* the fetch is not inside a try block: a provider error is not caught
PollSnapshot ==
    /\ pc = "cs_poll"
    /\ \/ \E status \in SnapshotStatuses :
            /\ calls' = Append(calls, Call("get_all_snapshots", cs_target_snapshot_id,
                                           status, 44))
            /\ IF SnapshotPending(status) THEN Goto("cs_sleep") ELSE Goto("cs_check")
            /\ UNCHANGED log
       \/ /\ calls' = Append(calls, Call("get_all_snapshots", cs_target_snapshot_id,
                                         "EC2ResponseError", 44))
          /\ Raise("EC2ResponseError")
    /\ UNCHANGED <<inputs, locals, register_request, clock>>

\* the sleeps made so far by the loop that logs `msg`
Waits(msg) == Cardinality({i \in DOMAIN log : log[i].msg = msg})

\* l.45-46: logging.debug(...); sleep(5)
SleepSnapshot ==
    /\ pc = "cs_sleep"
    /\ Waits("Waiting for completion of the snapshot copy.") < MaxWaits
    /\ log' = Append(log, Record("DEBUG", "Waiting for completion of the snapshot copy.",
                                 None))
    /\ clock' = clock + SleepInterval
    /\ Goto("cs_poll")
    /\ UNCHANGED <<inputs, locals, calls, register_request>>

\* l.48: the terminal condition on the status fetched again after the loop
SnapshotBroken(status) == status = "error"

\* l.48-53: a second fetch decides between sys.exit(1) and the return, whose
\* value main assigns at l.147
CheckSnapshot ==
    /\ pc = "cs_check"
    /\ \/ \E status \in SnapshotStatuses :
            /\ calls' = Append(calls, Call("get_all_snapshots", cs_target_snapshot_id,
                                           status, 48))
            /\ IF SnapshotBroken(status)
               THEN /\ Fatal("Copying the snapshot of the source AMI failed: The new snapshot (%s) is broken.",
                             cs_target_snapshot_id)
                    /\ UNCHANGED target_snapshot_id
               ELSE /\ target_snapshot_id' = cs_target_snapshot_id
                    /\ Goto("resolve_sriov")
                    /\ UNCHANGED log
       \/ /\ calls' = Append(calls, Call("get_all_snapshots", cs_target_snapshot_id,
                                         "EC2ResponseError", 48))
          /\ Raise("EC2ResponseError")
          /\ UNCHANGED target_snapshot_id
    /\ UNCHANGED <<inputs, source_snapshot_id, cs_target_snapshot_id,
                   sriov_net_support, block_device_map, ci_target_image_id,
                   target_image_id, register_request, clock>>

(***************************************************************************)
(* main, l.149-153                                                         *)
(***************************************************************************)
\* the override of l.150-151 forgotten
ResolveSriovKeepsSource(force, source_flag) == source_flag

\* l.150-153: the option overrides the source image's setting
ResolveSriov(force, source_flag) == IF force THEN Simple ELSE source_flag

ResolveNetworking ==
    /\ pc = "resolve_sriov"
    /\ sriov_net_support' = ResolveSriov(args.sriov_net_support,
                                         source_image.sriov_net_support)
    /\ Goto("build_map")
    /\ UNCHANGED <<inputs, source_snapshot_id, cs_target_snapshot_id,
                   target_snapshot_id, block_device_map, ci_target_image_id,
                   target_image_id, calls, register_request, log, clock>>

(***************************************************************************)
(* build_block_device_map, l.56-78                                         *)
(***************************************************************************)
\* Python's chr() on the lower-case letters
AsciiLower == <<"a", "b", "c", "d", "e", "f", "g", "h", "i", "j", "k", "l", "m",
                "n", "o", "p", "q", "r", "s", "t", "u", "v", "w", "x", "y", "z">>

chr(n) == AsciiLower[n - 96]

\* Python's '%i' on one decimal digit
DecimalDigits == <<"0", "1", "2", "3", "4", "5", "6", "7", "8", "9">>

FormatInt(i) == DecimalDigits[i + 1]

\* l.75: device_name = '/dev/sd%s' % chr(98+i)
EphemeralDeviceName(i) == "/dev/sd" \o chr(FirstEphemeralChr + i)

\* l.76: BlockDeviceType(ephemeral_name='ephemeral%i' % i)
EphemeralDevice(i) == [ephemeral_name |-> "ephemeral" \o FormatInt(i)]

\* l.69-72: BlockDeviceType(snapshot_id=..., size=10, volume_type='gp2', ...)
RootDevice(snapshot_id, del_root_volume) ==
    [snapshot_id |-> snapshot_id, size |-> RootSize,
     volume_type |-> RootVolumeType, delete_on_termination |-> del_root_volume]

\* block_device_map[key] = value: a later assignment to a key replaces the entry
SetItem(map, key, value) ==
    [k \in DOMAIN map \cup {key} |-> IF k = key THEN value ELSE map[k]]

\* l.74-76: the map after the loop has run for i = 0 .. n-1
RECURSIVE AddEphemerals(_, _)
AddEphemerals(map, n) ==
    IF n = 0 THEN map
    ELSE SetItem(AddEphemerals(map, n - 1), EphemeralDeviceName(n - 1),
                 EphemeralDevice(n - 1))

\* l.64-78, for a source image that has an entry for its root device name
build_block_device_map(image, snapshot_id) ==
    LET root_device_name == image.root_device_name
        del_root_volume ==
            image.block_device_mapping[root_device_name].delete_on_termination
    IN  AddEphemerals(SetItem(EmptyMap, root_device_name,
                              RootDevice(snapshot_id, del_root_volume)),
                      NumEphemeral)

\* BuildMap with l.66 taking the root entry out of the source mapping
\* (block_device_mapping.pop(root_device_name)) instead of reading it
BuildMapPopsRoot ==
    /\ pc = "build_map"
    /\ source_image.root_device_name \in DOMAIN source_image.block_device_mapping
    /\ block_device_map' = build_block_device_map(source_image, target_snapshot_id)
    /\ source_image' =
          [source_image EXCEPT !.block_device_mapping =
              [n \in DOMAIN @ \ {source_image.root_device_name} |-> @[n]]]
    /\ Goto("ci_register")
    /\ UNCHANGED <<args, source_snapshot_id, cs_target_snapshot_id,
                   target_snapshot_id, sriov_net_support, ci_target_image_id,
                   target_image_id, calls, register_request, log, clock>>

\* l.155, with the KeyError of l.66 when the root entry is missing
BuildMap ==
    /\ pc = "build_map"
    /\ IF source_image.root_device_name \in DOMAIN source_image.block_device_mapping
       THEN /\ block_device_map' = build_block_device_map(source_image,
                                                          target_snapshot_id)
            /\ Goto("ci_register")
            /\ UNCHANGED log
       ELSE /\ Raise("KeyError")
            /\ UNCHANGED block_device_map
    /\ UNCHANGED <<inputs, source_snapshot_id, cs_target_snapshot_id,
                   target_snapshot_id, sriov_net_support, ci_target_image_id,
                   target_image_id, calls, register_request, clock>>

(***************************************************************************)
(* create_image, l.81-105                                                  *)
(***************************************************************************)
\* l.84-91: the keyword arguments of connection.register_image
RegisterArguments(image, map, flag) ==
    [name |-> image.name, architecture |-> image.architecture,
     kernel_id |-> image.kernel_id, ramdisk_id |-> image.ramdisk_id,
     root_device_name |-> image.root_device_name, block_device_map |-> map,
     virtualization_type |-> image.virtualization_type,
     sriov_net_support |-> flag]

\* l.83-94: target_image_id = connection.register_image(...)
RegisterImage ==
    /\ pc = "ci_register"
    /\ register_request' = {RegisterArguments(source_image, block_device_map,
                                              sriov_net_support)}
    /\ \/ \E new_id \in NewImageIds :
            /\ calls' = Append(calls, Call("register_image", source_image.name,
                                           new_id, 84))
            /\ ci_target_image_id' = new_id
            /\ Goto("ci_poll")
            /\ UNCHANGED log
       \/ /\ calls' = Append(calls, Call("register_image", source_image.name,
                                         "EC2ResponseError", 84))
          /\ Fatal("The creation of the copied AMI failed: %s", ErrorMessage)
          /\ UNCHANGED ci_target_image_id
    /\ UNCHANGED <<inputs, source_snapshot_id, cs_target_snapshot_id,
                   target_snapshot_id, sriov_net_support, block_device_map,
                   target_image_id, clock>>

\* the loop of l.96 waiting for available instead of for the end of pending
ImagePendingUntilAvailable(state) == state # "available"

\* the loop of l.96 with a condition that no state ends
ImagePendingAlways(state) == TRUE

\* l.96: the loop condition on the fetched state
ImagePending(state) == state = "pending"

\* l.96: while connection.get_all_images(...)[0].state == 'pending'
PollImage ==
    /\ pc = "ci_poll"
    /\ \/ \E state \in ImageStates :
            /\ calls' = Append(calls, Call("get_all_images", ci_target_image_id,
                                           state, 96))
            /\ IF ImagePending(state) THEN Goto("ci_sleep") ELSE Goto("ci_check")
            /\ UNCHANGED log
       \/ /\ calls' = Append(calls, Call("get_all_images", ci_target_image_id,
                                         "EC2ResponseError", 96))
          /\ Raise("EC2ResponseError")
    /\ UNCHANGED <<inputs, locals, register_request, clock>>

\* l.97-98: logging.debug(...); sleep(5)
SleepImage ==
    /\ pc = "ci_sleep"
    /\ Waits("Waiting for completion of the AMI creation.") < MaxWaits
    /\ log' = Append(log, Record("DEBUG", "Waiting for completion of the AMI creation.",
                                 None))
    /\ clock' = clock + SleepInterval
    /\ Goto("ci_poll")
    /\ UNCHANGED <<inputs, locals, calls, register_request>>

\* the check of l.100 made against the snapshots' failure status
ImageBrokenWrongState(state) == state = "error"

\* the check of l.100 left out
ImageBrokenNever(state) == FALSE

\* l.100: the terminal condition on the state fetched again after the loop
ImageBroken(state) == state = "failed"

\* CheckImage with a cleanup added to the failure path: the copied snapshot
\* is deleted before the exit
CheckImageCleansUp ==
    /\ pc = "ci_check"
    /\ \/ \E state \in ImageStates :
            IF ImageBroken(state)
            THEN /\ calls' = calls \o
                        <<Call("get_all_images", ci_target_image_id, state, 100),
                          Call("delete_snapshot", target_snapshot_id, "ok", 103)>>
                 /\ Fatal("The creation of the copied AMI failed. The new AMI (%s) is broken.",
                          ci_target_image_id)
                 /\ UNCHANGED target_image_id
            ELSE /\ calls' = Append(calls, Call("get_all_images", ci_target_image_id,
                                                state, 100))
                 /\ target_image_id' = ci_target_image_id
                 /\ Goto("report")
                 /\ UNCHANGED log
       \/ /\ calls' = Append(calls, Call("get_all_images", ci_target_image_id,
                                         "EC2ResponseError", 100))
          /\ Raise("EC2ResponseError")
          /\ UNCHANGED target_image_id
    /\ UNCHANGED <<inputs, source_snapshot_id, cs_target_snapshot_id,
                   target_snapshot_id, sriov_net_support, block_device_map,
                   ci_target_image_id, register_request, clock>>

\* l.100-105: a second fetch decides between sys.exit(1) and the return, whose
\* value main assigns at l.157
CheckImage ==
    /\ pc = "ci_check"
    /\ \/ \E state \in ImageStates :
            /\ calls' = Append(calls, Call("get_all_images", ci_target_image_id,
                                           state, 100))
            /\ IF ImageBroken(state)
               THEN /\ Fatal("The creation of the copied AMI failed. The new AMI (%s) is broken.",
                             ci_target_image_id)
                    /\ UNCHANGED target_image_id
               ELSE /\ target_image_id' = ci_target_image_id
                    /\ Goto("report")
                    /\ UNCHANGED log
       \/ /\ calls' = Append(calls, Call("get_all_images", ci_target_image_id,
                                         "EC2ResponseError", 100))
          /\ Raise("EC2ResponseError")
          /\ UNCHANGED target_image_id
    /\ UNCHANGED <<inputs, source_snapshot_id, cs_target_snapshot_id,
                   target_snapshot_id, sriov_net_support, block_device_map,
                   ci_target_image_id, register_request, clock>>

(***************************************************************************)
(* main, l.159, and the return of main: the interpreter exits with 0       *)
(***************************************************************************)
Report ==
    /\ pc = "report"
    /\ log' = Append(log, Record("INFO", "The new image is available as: %s",
                                 target_image_id))
    /\ exit_status' = 0
    /\ pc' = "exit"
    /\ UNCHANGED <<inputs, locals, calls, register_request, clock, uncaught>>

Next ==
    \/ GetSourceImage
    \/ RootLookup
    \/ GetSourceSnapshot
    \/ CopyRequest
    \/ PollSnapshot
    \/ SleepSnapshot
    \/ CheckSnapshot
    \/ ResolveNetworking
    \/ BuildMap
    \/ RegisterImage
    \/ PollImage
    \/ SleepImage
    \/ CheckImage
    \/ Report

Spec == Init /\ [][Next]_vars

(***************************************************************************)
(* Observations of a run, read from the provider calls and the log.        *)
(***************************************************************************)
SnapshotWaitMsg == "Waiting for completion of the snapshot copy."
ImageWaitMsg == "Waiting for completion of the AMI creation."
SnapshotBrokenMsg ==
    "Copying the snapshot of the source AMI failed: The new snapshot (%s) is broken."
ImageBrokenMsg == "The creation of the copied AMI failed. The new AMI (%s) is broken."
CopyRequestErrorMsg == "Copying the snapshot of the source AMI failed: %s"

CallsOf(op) == {i \in DOMAIN calls : calls[i].op = op}
CallsAt(lines) == {i \in DOMAIN calls : calls[i].line \in lines}
Failed(i) == calls[i].res = "EC2ResponseError"

\* the status fetches of the copied snapshot and of the new image
SnapshotFetches == CallsAt({44, 48})
ImageFetches == CallsAt({96, 100})

\* the results of the calls of `set`, in the order they were made
RECURSIVE ResultsFrom(_, _)
ResultsFrom(set, i) ==
    IF i > Len(calls) THEN <<>>
    ELSE (IF i \in set THEN <<calls[i].res>> ELSE <<>>) \o ResultsFrom(set, i + 1)

Results(set) == ResultsFrom(set, 1)

Logged(level, msg) == \E i \in DOMAIN log : log[i].level = level /\ log[i].msg = msg

\* the process has ended the way sys.exit(1) after logging.critical ends it
EndedFatally(msg, arg) ==
    /\ pc = "exit"
    /\ exit_status = 1
    /\ uncaught = None
    /\ log # <<>>
    /\ log[Len(log)] = Record("CRITICAL", msg, arg)

(***************************************************************************)
(* C1. The register-image request is never issued before a status fetch of *)
(* the copied snapshot has returned a status other than pending, and the   *)
(* device map is built only after copy_snapshot has returned and before    *)
(* the register-image request, which carries it.                           *)
(***************************************************************************)
C1_StrictSequence ==
    /\ \A i \in CallsOf("register_image") :
          \E j \in SnapshotFetches :
             /\ j < i
             /\ calls[j].arg = cs_target_snapshot_id
             /\ calls[j].res \in SnapshotStatuses \ {"pending"}
    /\ block_device_map # EmptyMap =>
          /\ target_snapshot_id # None
          /\ \E c \in CallsOf("copy_snapshot") : calls[c].res = target_snapshot_id
    /\ \A r \in register_request :
          /\ block_device_map # EmptyMap
          /\ r.block_device_map = block_device_map

C1_Witness ==
    /\ \E i \in CallsOf("register_image") : ~Failed(i)
    /\ \E j \in CallsAt({44}) : calls[j].res = "pending"

(***************************************************************************)
(* C2. When the provider rejects the copy-snapshot request, the process    *)
(* logs the critical message of the copy request, exits with status 1, and *)
(* no register-image request is made: the rejected call is the last call.  *)
(***************************************************************************)
C2_CopyRejected ==
    \A i \in CallsOf("copy_snapshot") :
       Failed(i) =>
          /\ EndedFatally(CopyRequestErrorMsg, ErrorMessage)
          /\ i = Len(calls)
          /\ CallsOf("register_image") = {}
          /\ register_request = {}

C2_Witness ==
    \E i \in CallsOf("copy_snapshot") : Failed(i) /\ pc = "exit"

(***************************************************************************)
(* C3. Each polling loop sleeps once, for the fixed interval, per loop     *)
(* fetch that returned pending, and leaves the loop at its first fetch     *)
(* that did not: no loop fetch and no sleep follows it.  When the provider *)
(* reports pending, pending, completed and completed from then on,         *)
(* copy_snapshot returns the new id after exactly two sleeps.              *)
(***************************************************************************)
PendingAt(line) == Cardinality({i \in CallsAt({line}) : calls[i].res = "pending"})

LoopDiscipline(line, check, msg, sleeping) ==
    /\ Waits(msg) = PendingAt(line) - (IF pc = sleeping THEN 1 ELSE 0)
    /\ \A i, j \in CallsAt({line}) : i < j => calls[i].res = "pending"
    /\ \A j \in CallsAt({check}) :
          /\ j - 1 \in CallsAt({line})
          /\ calls[j - 1].res \notin {"pending", "EC2ResponseError"}
          /\ \A k \in CallsAt({line, check}) : k <= j

C3_PollingLoops ==
    /\ LoopDiscipline(44, 48, SnapshotWaitMsg, "cs_sleep")
    /\ LoopDiscipline(96, 100, ImageWaitMsg, "ci_sleep")
    /\ clock = SleepInterval * (Waits(SnapshotWaitMsg) + Waits(ImageWaitMsg))
    /\ LET seen == Results(SnapshotFetches)
       IN  Len(seen) >= 3 /\ SubSeq(seen, 1, 3) = <<"pending", "pending", "completed">> =>
              Waits(SnapshotWaitMsg) = 2
    /\ Results(SnapshotFetches) = <<"pending", "pending", "completed", "completed">> =>
          /\ Waits(SnapshotWaitMsg) = 2
          /\ target_snapshot_id = cs_target_snapshot_id
          /\ target_snapshot_id \in NewSnapshotIds
          /\ ~Logged("CRITICAL", SnapshotBrokenMsg)

C3_Witness ==
    /\ Results(SnapshotFetches) = <<"pending", "pending", "completed", "completed">>
    /\ Results(ImageFetches) = <<"pending", "available", "available">>
    /\ pc = "exit"

(***************************************************************************)
(* C4. Once a status fetch of the copied snapshot has returned error, or   *)
(* one of the new image failed, no further status fetch of that resource   *)
(* is made and the run ends with the corresponding fatal error.            *)
(***************************************************************************)
C4_NoFetchAfterFailure ==
    /\ \A i \in SnapshotFetches :
          calls[i].res = "error" =>
             /\ \A j \in SnapshotFetches : j <= i
             /\ pc = "exit" => EndedFatally(SnapshotBrokenMsg, cs_target_snapshot_id)
    /\ \A i \in ImageFetches :
          calls[i].res = "failed" =>
             /\ \A j \in ImageFetches : j <= i
             /\ pc = "exit" => EndedFatally(ImageBrokenMsg, ci_target_image_id)

(***************************************************************************)
(* C5. The status fetched by the terminal check decides: copy_snapshot     *)
(* ends fatally iff it is error, create_image iff it is failed; with any   *)
(* other status the id the copy or registration request returned is        *)
(* returned unchanged.                                                     *)
(***************************************************************************)
C5_TerminalCheck ==
    /\ \A i \in CallsAt({48}) :
          ~Failed(i) =>
             IF calls[i].res = "error"
             THEN /\ EndedFatally(SnapshotBrokenMsg, cs_target_snapshot_id)
                  /\ target_snapshot_id = None
             ELSE /\ ~Logged("CRITICAL", SnapshotBrokenMsg)
                  /\ target_snapshot_id # None
                  /\ \E c \in CallsOf("copy_snapshot") :
                        calls[c].res = target_snapshot_id
    /\ \A i \in CallsAt({100}) :
          ~Failed(i) =>
             IF calls[i].res = "failed"
             THEN /\ EndedFatally(ImageBrokenMsg, ci_target_image_id)
                  /\ target_image_id = None
             ELSE /\ ~Logged("CRITICAL", ImageBrokenMsg)
                  /\ target_image_id # None
                  /\ \E c \in CallsOf("register_image") :
                        calls[c].res = target_image_id
    /\ Logged("CRITICAL", SnapshotBrokenMsg) =>
          \E i \in CallsAt({48}) : calls[i].res = "error"
    /\ Logged("CRITICAL", ImageBrokenMsg) =>
          \E i \in CallsAt({100}) : calls[i].res = "failed"

C5_Witness ==
    /\ \E i \in CallsAt({48}) : calls[i].res = "completed"
    /\ \E i \in CallsAt({100}) : calls[i].res = "failed"

(***************************************************************************)
(* C6. For every source image whose root device name has an entry in its   *)
(* mapping, the built map has five entries: one volume entry, at the root  *)
(* device name, and ephemeral0..ephemeral3 at /dev/sdb../dev/sde.          *)
(***************************************************************************)
IsVolume(device) == "snapshot_id" \in DOMAIN device
IsEphemeral(device) == "ephemeral_name" \in DOMAIN device
EphemeralSlots == <<"/dev/sdb", "/dev/sdc", "/dev/sdd", "/dev/sde">>
EphemeralNames == <<"ephemeral0", "ephemeral1", "ephemeral2", "ephemeral3">>

C6_FiveEntries ==
    block_device_map # EmptyMap =>
       LET root == source_image.root_device_name
           names == DOMAIN block_device_map
       IN  /\ Cardinality(names) = 5
           /\ {n \in names : IsVolume(block_device_map[n])} = {root}
           /\ {n \in names : IsEphemeral(block_device_map[n])} =
                 {EphemeralSlots[i] : i \in 1..4}
           /\ \A i \in 1..4 :
                 block_device_map[EphemeralSlots[i]] =
                    [ephemeral_name |-> EphemeralNames[i]]

(***************************************************************************)
(* C7. In the built map the entry at the source's root device name is a    *)
(* volume of 10 GB and type gp2 on target_snapshot_id, with the source     *)
(* root entry's delete-on-termination flag.                                *)
(***************************************************************************)
C7_RootEntry ==
    block_device_map # EmptyMap =>
       LET root == source_image.root_device_name
       IN  /\ root \in DOMAIN block_device_map
           /\ IsVolume(block_device_map[root])
           /\ block_device_map[root].snapshot_id = target_snapshot_id
           /\ block_device_map[root].size = 10
           /\ block_device_map[root].volume_type = "gp2"
           /\ block_device_map[root].delete_on_termination =
                 source_image.block_device_mapping[root].delete_on_termination

(***************************************************************************)
(* C8. The flag passed to register_image is 'simple' when the caller       *)
(* forces enhanced networking, whatever the source image's flag, and the   *)
(* source image's flag when the caller does not.                           *)
(***************************************************************************)
C8_NetworkingFlag ==
    \A r \in register_request :
       /\ args.sriov_net_support => r.sriov_net_support = "simple"
       /\ ~args.sriov_net_support =>
             r.sriov_net_support = source_image.sriov_net_support

C8_Witness ==
    /\ register_request # {}
    /\ args.sriov_net_support
    /\ source_image.sriov_net_support = None

(***************************************************************************)
(* C9. After any provider call has raised an error, status lookups of the  *)
(* polling loops and terminal checks included, the process has ended with  *)
(* a non-zero status and a critical message was logged for it.             *)
(***************************************************************************)
C9_CriticalBeforeExit ==
    \A i \in DOMAIN calls :
       Failed(i) =>
          /\ pc = "exit"
          /\ exit_status \notin {-1, 0}
          /\ log # <<>>
          /\ log[Len(log)].level = "CRITICAL"

(***************************************************************************)
(* C10. The copy-snapshot and the register-image request are each issued   *)
(* at most once, and a provider call that raised an error is the last      *)
(* provider call of the run, which has ended.                              *)
(***************************************************************************)
C10_NoRetry ==
    /\ Cardinality(CallsOf("copy_snapshot")) <= 1
    /\ Cardinality(CallsOf("register_image")) <= 1
    /\ \A i \in DOMAIN calls :
          Failed(i) => i = Len(calls) /\ pc = "exit" /\ exit_status = 1

C10_Witness ==
    /\ \E i \in CallsOf("register_image") : Failed(i)
    /\ Cardinality(CallsOf("copy_snapshot")) = 1
    /\ pc = "exit"

(***************************************************************************)
(* C11. The program issues only lookups, the copy request and the          *)
(* registration request: nothing that deletes or modifies the copied       *)
(* snapshot or the new image.  A snapshot created by an accepted copy      *)
(* request therefore still exists in every state, at termination too.      *)
(***************************************************************************)
Lookups == {"get_all_images", "get_all_snapshots"}

\* the snapshots the accepted copy requests created and no request deleted
RemoteSnapshots ==
    {calls[c].res : c \in {i \in CallsOf("copy_snapshot") : ~Failed(i)}}
       \ {calls[d].arg : d \in CallsOf("delete_snapshot")}

C11_NoCleanup ==
    /\ \A i \in DOMAIN calls :
          /\ calls[i].op \in Lookups \cup {"copy_snapshot", "register_image"}
          /\ calls[i].arg \in NewSnapshotIds \cup NewImageIds =>
                calls[i].op \in Lookups
    /\ \A c \in CallsOf("copy_snapshot") :
          ~Failed(c) => calls[c].res \in RemoteSnapshots

C11_Witness ==
    /\ pc = "exit"
    /\ \E i \in CallsAt({100}) : calls[i].res = "failed"
    /\ RemoteSnapshots # {}

(***************************************************************************)
(* C12. On a run without provider errors and without the forced flag: the  *)
(* copy request names the snapshot of the source's root entry; the         *)
(* register request carries a map whose root entry is a 10 GB gp2 volume   *)
(* on the snapshot the copy request returned, with the source's            *)
(* delete-on-termination flag, plus four ephemeral entries, and carries    *)
(* the source's networking flag; a run that ends with status 0 after the   *)
(* image was fetched as available reports the id the registration          *)
(* returned.                                                               *)
(***************************************************************************)
C12_EndToEnd ==
    (~args.sriov_net_support /\ \A i \in DOMAIN calls : ~Failed(i)) =>
       LET root == source_image.root_device_name
       IN  /\ \A c \in CallsOf("copy_snapshot") :
                 calls[c].arg = source_image.block_device_mapping[root].snapshot_id
           /\ \A r \in register_request :
                 /\ root \in DOMAIN r.block_device_map
                 /\ IsVolume(r.block_device_map[root])
                 /\ \E c \in CallsOf("copy_snapshot") :
                       r.block_device_map[root].snapshot_id = calls[c].res
                 /\ r.block_device_map[root].snapshot_id \notin SourceSnapshotIds
                 /\ r.block_device_map[root].size = 10
                 /\ r.block_device_map[root].volume_type = "gp2"
                 /\ r.block_device_map[root].delete_on_termination =
                       source_image.block_device_mapping[root].delete_on_termination
                 /\ Cardinality({n \in DOMAIN r.block_device_map :
                                    IsEphemeral(r.block_device_map[n])}) = 4
                 /\ r.sriov_net_support = source_image.sriov_net_support
           /\ exit_status = 0 =>
                 /\ \E c \in CallsOf("register_image") : calls[c].res = target_image_id
                 /\ log[Len(log)] = Record("INFO", "The new image is available as: %s",
                                           target_image_id)

(***************************************************************************)
(* The process under the scheduling of a sequential program: it takes its  *)
(* next step whenever it has one.                                          *)
(***************************************************************************)
LiveSpec == Init /\ [][Next]_vars /\ WF_vars(Next)

(***************************************************************************)
(* C13. A run ends (with success, a fatal error or an uncaught exception)  *)
(* unless a polling loop has only ever fetched pending: as long as every   *)
(* status fetch of the copied snapshot, or of the new image, has returned  *)
(* pending, the process is still in that loop; a sleep is always followed  *)
(* by another fetch, never by a timeout.  A run is followed for MaxWaits   *)
(* sleeps per loop.                                                        *)
(***************************************************************************)
OnlyPending(fetches) ==
    fetches # {} /\ \A i \in fetches : calls[i].res = "pending"

\* a loop that fetched pending more than MaxWaits times: not followed further
PendingBeyondBound == PendingAt(44) > MaxWaits \/ PendingAt(96) > MaxWaits

StuckWhilePending ==
    /\ OnlyPending(SnapshotFetches) => pc \in {"cs_poll", "cs_sleep"} /\ exit_status = -1
    /\ OnlyPending(ImageFetches) => pc \in {"ci_poll", "ci_sleep"} /\ exit_status = -1

SleepThenFetch ==
    /\ pc = "cs_sleep" => pc' = "cs_poll"
    /\ pc = "ci_sleep" => pc' = "ci_poll"

C13_Termination ==
    /\ []StuckWhilePending
    /\ [][SleepThenFetch]_vars
    /\ <>(pc = "exit" \/ PendingBeyondBound)

C13_Witness ==
    /\ pc = "exit"
    /\ exit_status = 0
    /\ PendingAt(44) >= 1
    /\ PendingAt(96) >= 1

(***************************************************************************)
(* C14. When the source image has no mapping entry for its root device     *)
(* name, the run ends in build_block_device_map, reached after the         *)
(* snapshot copy, with a non-zero status after a critical message, and not *)
(* with an exception nobody caught.                                        *)
(***************************************************************************)
RootEntryMissing ==
    source_image.root_device_name \notin DOMAIN source_image.block_device_mapping

C14_InvalidSourceImage ==
    (RootEntryMissing /\ pc = "exit" /\ \A i \in DOMAIN calls : ~Failed(i)) =>
       /\ exit_status = 1
       /\ uncaught = None
       /\ log # <<>>
       /\ log[Len(log)].level = "CRITICAL"
       /\ target_snapshot_id # None

(***************************************************************************)
(* C15. The call of build_block_device_map issues no provider call, logs   *)
(* nothing, takes no time and changes neither its arguments nor any other  *)
(* state but the variable that receives the map; from then on, calling it  *)
(* again with the same source image and target snapshot id yields the map  *)
(* it yielded the first time.                                              *)
(***************************************************************************)
BuildLeavesStateAlone ==
    pc = "build_map" =>
       /\ UNCHANGED <<args, source_image, source_snapshot_id, cs_target_snapshot_id,
                      target_snapshot_id, sriov_net_support, ci_target_image_id,
                      target_image_id, calls, register_request, log, clock>>
       /\ pc' = "ci_register"

SameMapAgain ==
    block_device_map # EmptyMap =>
       /\ ~RootEntryMissing
       /\ block_device_map = build_block_device_map(source_image, target_snapshot_id)

C15_Pure == [][BuildLeavesStateAlone]_vars /\ []SameMapAgain

C15_Witness ==
    /\ pc = "exit"
    /\ exit_status = 0
    /\ block_device_map # EmptyMap

(***************************************************************************)
(* C16. With a provider whose image states are pending, available and      *)
(* failed and whose terminal states are absorbing, the new image id is     *)
(* reported only for an image last fetched as available, never for one     *)
(* that was pending or failed when last fetched, and create_image ends     *)
(* either with success on available or with the fatal error on failed.     *)
(***************************************************************************)
\* once a fetch has returned a status other than pending, all later fetches
\* return that status
Absorbing(seen) ==
    \A i, j \in DOMAIN seen : (i < j /\ seen[i] # "pending") => seen[j] = seen[i]

ReportMsg == "The new image is available as: %s"

C16_SuccessOnlyAvailable ==
    LET seen == Results(ImageFetches)
    IN  Absorbing(seen) =>
           /\ (Logged("INFO", ReportMsg) \/ target_image_id # None) =>
                 /\ seen # <<>>
                 /\ seen[Len(seen)] = "available"
                 /\ \A i \in DOMAIN seen : seen[i] \in {"pending", "available"}
           /\ \A i \in CallsAt({100}) :
                 ~Failed(i) =>
                    \/ calls[i].res = "available" /\ target_image_id # None
                    \/ /\ calls[i].res = "failed"
                       /\ EndedFatally(ImageBrokenMsg, ci_target_image_id)
                       /\ ~Logged("INFO", ReportMsg)

C16_Witness ==
    /\ Logged("INFO", ReportMsg)
    /\ exit_status = 0
    /\ Results(ImageFetches) = <<"pending", "pending", "available", "available">>

(***************************************************************************)
(* C17. Whatever statuses the provider returns, when copy_snapshot or      *)
(* create_image has returned, the status that ended its polling loop is    *)
(* the status its terminal check examined, and the last status fetched is  *)
(* neither pending nor the failure state.                                  *)
(***************************************************************************)
SameObservation(seen, failure) ==
    /\ Len(seen) >= 1
    /\ seen[Len(seen)] \notin {"pending", failure}
    /\ \A i \in DOMAIN seen : seen[i] # "pending" => seen[i] = seen[Len(seen)]

C17_SameObservation ==
    /\ target_snapshot_id # None => SameObservation(Results(SnapshotFetches), "error")
    /\ target_image_id # None => SameObservation(Results(ImageFetches), "failed")

(***************************************************************************)
(* C18. When the source image has no mapping entry for its root device     *)
(* name, the run issues no copy-snapshot and no register-image request:    *)
(* its only provider call is the lookup of the source image, and no remote *)
(* resource is created.                                                    *)
(***************************************************************************)
C18_StopsBeforeCopy ==
    RootEntryMissing =>
       /\ CallsOf("copy_snapshot") = {}
       /\ CallsOf("register_image") = {}
       /\ \A i \in DOMAIN calls : calls[i].op = "get_all_images" /\ calls[i].line = 139
       /\ RemoteSnapshots = {}
       /\ register_request = {}
       /\ pc \in {"get_source_image", "root_lookup", "exit"}

C18_Witness ==
    /\ RootEntryMissing
    /\ pc = "exit"
    /\ uncaught = "KeyError"
    /\ Len(calls) = 1

=============================================================================
